---- MODULE Spec2Model ----
(***************************************************************************)
(* State machine of the AudioPlayer component (AudioPlayer.jsx): the React *)
(* state of one mounted instance, the native <audio> element behind        *)
(* audioRef, the progress interval, and the promises and fetches in        *)
(* flight.  One action per event handler, effect or promise continuation.  *)
(***************************************************************************)
EXTENDS Integers, Sequences, FiniteSets, TLC

\* ---------------------------------------------------------------- bounds
\* Length of the media resource in seconds (what audio.duration reports).
MediaDuration == 60
\* Seconds of playback between two timeupdate events of the model.
PlaybackStep == 30
\* Interval ids the model can hand out (setInterval calls that may coexist).
MaxTimers == 2
\* Resume fetches that may be in flight together.
MaxResumeFetches == 1
\* Fetches of an earlier effect run that may still be in flight, per kind.
MaxStaleFetches == 1
\* Calls of trackPerformance and trackError one run follows.
MaxTrackCalls == 2
\* Calls of the session logger's log one session makes.
MaxLogCalls == 1600
\* trackSeek calls followed on the logger alone
MaxSeekTracks == 1001
\* fetchIntroProgress calls in flight at once
MaxIntroFetches == 2

\* ------------------------------------------------- ProgressRecord (JSON)
\* is_finished arrives as a JSON boolean or a JSON number: the literal.
IsFinishedValues == {"false", "true", "0", "1"}
PositionValues == {0, 30, 90}
CompletionValues == {25, 100}
ProgressRecords ==
  [position : PositionValues,
   completion_percentage : CompletionValues,
   is_finished : IsFinishedValues]

NoRecord == [position |-> 0, completion_percentage |-> 0, is_finished |-> "false"]

\* resumePosition === null
Null == -1

\* App before a book is selected: introProgress null, introError null,
\* loadingIntro false and no fetchIntroProgress in flight.  The progress and
\* the error are known by the id of the book they were fetched for.
NoIntro ==
  [progress |-> Null, error |-> Null, loading |-> FALSE, fetches |-> <<>>]

VARIABLES
  mounted,               \* the instance is mounted (audioRef.current non-null)
  authToken,             \* prop: a Bearer token is present
  autoPlay,              \* prop
  isPlaying, isLoading, error, duration, currentTime,
  resumeAvailable, resumePosition, showStartOver, completionPercentage,
  elSrc,                 \* audio.src: "none", "initial" or "resume"
  elPhase,               \* load state of the element's current source
  elCurrentTime,         \* audio.currentTime
  elPaused,              \* audio.paused
  elOnLoadedMetadata,    \* audio.onloadedmetadata installed by handleResume
  progressIntervalRef,   \* progressIntervalRef.current (0 = null)
  activeTimers,          \* interval ids set and not cleared
  pendingPlay,           \* handlePlay calls awaiting audio.play()
  abortedPlay,           \* handlePlay calls whose play() promise will reject
  srcFetch,              \* authenticated source fetch of the init effect
  progFetch,             \* progress GET of the checkResume effect
  record,                \* the ProgressRecord the progress GET returned
  resumeFetches,         \* resume targets captured by pending handleResume calls
  resumeSeek,            \* what the last run of the resume metadata handler did
  playbackRate,          \* state: the rate chosen in the speed <select>
  timerRate,             \* the playbackRate each interval's callback closed over
  pendingRates,          \* the playbackRate each pending handlePlay closed over
  objectUrls,            \* object URLs created and not revoked, by their maker
  staleSrc,              \* source fetches of earlier runs of the init effect
  staleProg,             \* progress GETs of earlier runs of checkResume
  caller,                \* who renders the player: "demo", "app", "chapters"
  resourceId,            \* the bookId or chapter id the caller supplies
  intro,                 \* App: introProgress, introError, loadingIntro, fetches
  page,                  \* the page under the AuthProvider, "none" without
  storedToken,           \* localStorage[config.auth.tokenKey]
  ctxToken,              \* AuthProvider authToken
  ctxUser,               \* AuthProvider user
  ctxIsLoading,          \* AuthProvider isLoading
  validation,            \* the GET /user/me of validateToken
  loginFetch,            \* the POST /user/login of Login.handleSubmit
  loginLoading,          \* Login isLoading
  loginError,            \* Login error
  credentials,           \* Login credentials: which fields are filled in
  sessionLogs,           \* AudioPlayerLogger.sessionLogs, oldest entry first
  logCalls,              \* calls of AudioPlayerLogger.log so far
  performanceMetrics,    \* AudioPlayerLogger.performanceMetrics: queue lengths
  trackCalls,            \* calls of trackPerformance and trackError so far
  last                   \* the last handler that ran and the requests it issued

propVars  == <<authToken, autoPlay>>
stateVars == <<isPlaying, isLoading, error, duration, currentTime>>
flagVars  == <<resumeAvailable, resumePosition, showStartOver, completionPercentage>>
elVars    == <<elSrc, elPhase, elCurrentTime, elPaused, elOnLoadedMetadata>>
timerVars == <<progressIntervalRef, activeTimers, timerRate>>
playVars  == <<pendingPlay, abortedPlay, pendingRates>>
netVars   == <<srcFetch, progFetch, record, resumeFetches>>
staleVars  == <<staleSrc, staleProg>>
callerVars == <<caller, resourceId, intro>>
authVars   == <<page, storedToken, ctxToken, ctxUser, ctxIsLoading, validation,
               loginFetch, loginLoading, loginError, credentials>>
loggerVars == <<sessionLogs, logCalls, performanceMetrics, trackCalls>>
\* What surrounds one player instance.
aroundVars == <<staleVars, callerVars, authVars>>
\* What the handlers of one player instance never assign, the state of the
\* session logger included where it is not followed.
outerVars  == <<aroundVars, loggerVars>>
vars == <<mounted, propVars, stateVars, playbackRate, flagVars, elVars,
          timerVars, playVars, netVars, resumeSeek, objectUrls, outerVars, last>>

\* ------------------------------------------------------------- requests
\* A request without a progress body.
Request(m, what) ==
  [m |-> m, what |-> what, position |-> 0, status |-> "-", playback_speed |-> 0]

GetAudio    == Request("GET", "audio")
GetProgress == Request("GET", "progress")

\* body: { position: Math.floor(position), status, playback_speed }
PostProgress(position, status, speed) ==
  [m |-> "POST", what |-> "progress", position |-> position, status |-> status,
   playback_speed |-> speed]

\* updateProgress as one render created it (useCallback over authToken and
\* playbackRate): the requests a call of that closure issues.
updateProgressOf(speed, position, status) ==
  IF ~authToken THEN <<>> ELSE <<PostProgress(position, status, speed)>>

\* updateProgress(position, status) of the current render.
updateProgress(position, status) ==
  updateProgressOf(playbackRate, position, status)

\* What a step did: the handler, the requests it issued and the calls of the
\* onProgressUpdate prop it made.
DidCall(op, reqs, cb, response) ==
  [op |-> op, reqs |-> reqs, cb |-> cb, response |-> response]
Did(op, reqs) == DidCall(op, reqs, <<>>, "-")

\* ------------------------------------------------------ playback rate
\* The options of the speed <select> the model offers: 1x and 2x.
PlaybackRates == {1, 2}

\* No handlePlay call awaits audio.play().
NoPending == [r \in PlaybackRates |-> 0]

\* One more handlePlay call awaits, holding the closures of a render whose
\* playbackRate is rate.
Captured(pending, rate) == [pending EXCEPT ![rate] = @ + 1]

\* ------------------------------------------------------ native element
HasMetadata(phase) == phase \in {"meta", "ready"}

Min(a, b) == IF a < b THEN a ELSE b

\* Assigning audio.currentTime: the element clamps to the seekable range.
ElSeek(t) == IF t < 0 THEN 0 ELSE Min(t, MediaDuration)

\* audio.play() on a resource that ended playback seeks back to the start.
ElPlayTime(t, phase) ==
  IF HasMetadata(phase) /\ t = MediaDuration THEN 0 ELSE t

\* ------------------------------------------------------ checkResume
\* data.progress.is_finished === 1 || data.progress.is_finished === true
IsFinishedStrict1Only(rec) == rec.is_finished = "1"
IsFinished(rec) == rec.is_finished \in {"1", "true"}

\* typeof position === 'number' && position > 0 && parseFloat(cp) < 100
ResumeEligibleFromZero(rec) ==
  rec.position >= 0 /\ rec.completion_percentage < 100
ResumeEligible(rec) ==
  rec.position \in Int /\ rec.position > 0 /\ rec.completion_percentage < 100

\* ------------------------------------------------------ render
ResumeVisibleNoExclusion ==
  ~isPlaying /\ resumeAvailable /\ completionPercentage < 100
ResumeVisible ==
  ~isPlaying /\ resumeAvailable /\ completionPercentage < 100 /\ ~showStartOver

RestartBookVisible ==
  resumeAvailable /\ resumePosition # Null /\ duration > 0
  /\ resumePosition >= duration

StartOverVisible == ~isPlaying /\ showStartOver

\* The play/pause button is disabled={isLoading || error}.
PlayPauseEnabled == ~isLoading /\ error = "null"

\* ------------------------------------------------------ session logger
\* if (this.sessionLogs.length > 1000)
SessionLogLimit == 1000
\* this.sessionLogs = this.sessionLogs.slice(-500)
SessionLogKeep == 500

\* s.slice(-n)
SliceLast(s, n) ==
  IF Len(s) <= n THEN s ELSE SubSeq(s, Len(s) - n + 1, Len(s))

\* AudioPlayerLogger.log: push the entry, then trim.  An entry is known by
\* its place in the order of the calls (its timestamp).
LogKeepAll(logs, entry) == Append(logs, entry)
Log(logs, entry) ==
  IF Len(Append(logs, entry)) > SessionLogLimit
    THEN SliceLast(Append(logs, entry), SessionLogKeep)
    ELSE Append(logs, entry)

\* this.performanceMetrics = { loadTimes: [], seekOperations: [],
\* networkRequests: [], errors: [] }, each queue by its length.
NoMetrics ==
  [loadTimes |-> 0, seekOperations |-> 0, networkRequests |-> 0, errors |-> 0]

\* The types trackAudioLoad, trackSeek and trackNetworkRequest pass.
PerformanceTypes == {"loadTimes", "seekOperations", "networkRequests"}

\* trackPerformance(type, ...): if (this.performanceMetrics[type]) push
TrackPerformance(metrics, type) ==
  IF type \in DOMAIN metrics THEN [metrics EXCEPT ![type] = @ + 1] ELSE metrics

\* trackError: this.performanceMetrics.errors.push(errorEntry)
TrackError(metrics) == [metrics EXCEPT !.errors = @ + 1]

\* new AudioPlayerLogger(): the singleton as the module creates it.
LoggerConstructed ==
  /\ sessionLogs = <<>>
  /\ logCalls = 0
  /\ performanceMetrics = NoMetrics
  /\ trackCalls = 0

\* ------------------------------------------------------ Init
\* The state once the mount effects have run: with a token the init effect
\* has issued the source fetch and checkResume the progress GET; without a
\* token the streaming URL is the element's src at once.
PlayerInit ==
  /\ mounted = TRUE
  /\ authToken \in BOOLEAN
  /\ autoPlay \in BOOLEAN
  /\ isPlaying = FALSE
  /\ isLoading = authToken
  /\ error = "null"
  /\ duration = 0
  /\ currentTime = 0
  /\ resumeAvailable = FALSE
  /\ resumePosition = Null
  /\ showStartOver = FALSE
  /\ completionPercentage = 0
  /\ elSrc = IF authToken THEN "none" ELSE "initial"
  /\ elPhase = IF authToken THEN "empty" ELSE "assigned"
  /\ elCurrentTime = 0
  /\ elPaused = TRUE
  /\ elOnLoadedMetadata = [set |-> FALSE, target |-> Null]
  /\ progressIntervalRef = 0
  /\ activeTimers = {}
  /\ pendingPlay = 0
  /\ abortedPlay = 0
  /\ pendingRates = NoPending
  /\ playbackRate = 1
  /\ timerRate = [t \in 1..MaxTimers |-> 1]
  /\ srcFetch = IF authToken THEN "pending" ELSE "none"
  /\ progFetch = IF authToken THEN "pending" ELSE "none"
  /\ record = NoRecord
  /\ resumeFetches = <<>>
  /\ resumeSeek = [done |-> FALSE, hadMeta |-> FALSE, src |-> "none",
                   playFrom |-> Null]
  /\ objectUrls = {}
  /\ last = Did("mount", IF authToken THEN <<GetAudio, GetProgress>> ELSE <<>>)
  /\ staleSrc = 0
  /\ staleProg = 0

\* No AuthProvider around the player (pages/demo.jsx).
NoAuthProvider ==
  /\ page = "none"
  /\ storedToken = "none"
  /\ ctxToken = "none"
  /\ ctxUser = "none"
  /\ ctxIsLoading = FALSE
  /\ validation = "none"
  /\ loginFetch = "none"
  /\ loginLoading = FALSE
  /\ loginError = "null"
  /\ credentials = [email |-> FALSE, password |-> FALSE]

\* A caller that hands the player no resource prop (pages/demo.jsx).
Init ==
  /\ PlayerInit
  /\ caller = "demo"
  /\ resourceId = Null
  /\ intro = NoIntro
  /\ NoAuthProvider
  /\ LoggerConstructed

\* ------------------------------------------------------ shared pieces
\* The element's load algorithm, run when src is assigned: playback is
\* reset and pending play() promises are rejected.
ElLoad(src) ==
  /\ elSrc' = src
  /\ elPhase' = "assigned"
  /\ elCurrentTime' = 0
  /\ elPaused' = TRUE
  /\ abortedPlay' = abortedPlay + pendingPlay
  /\ pendingPlay' = 0
  /\ pendingRates' = NoPending

\* audio.play() has a resource to play.
ElPlayable == elSrc # "none" /\ elPhase # "error"

\* An interval id that setInterval can return: never one still active, nor
\* the one progressIntervalRef still holds.
FreeTimers == (1..MaxTimers) \ (activeTimers \cup {progressIntervalRef})
NewTimer == CHOOSE t \in FreeTimers : \A u \in FreeTimers : t <= u

\* Every handlePlay call in flight can still be given an interval id.
CanStartPlay == Cardinality(FreeTimers) > pendingPlay + abortedPlay

RemoveAt(s, i) == SubSeq(s, 1, i - 1) \o SubSeq(s, i + 1, Len(s))

\* if (resumePosition) audioRef.current.currentTime = resumePosition
ResumeHandlerNoSeek(target, t) == t
ResumeHandlerSeek(target, t) ==
  IF target # Null /\ target # 0 THEN ElSeek(target) ELSE t

\* ------------------------------------------------------ init effect
\* const url = URL.createObjectURL(blob): the handle lives until it is
\* passed to URL.revokeObjectURL.
CreateObjectURL(urls, maker) == urls \cup {maker}

\* .then(blob => { url = createObjectURL(blob); audioRef.current.src = url;
\*                 setIsLoading(false) })
\* After unmount the URL is still created; the assignment to
\* audioRef.current.src throws and the catch's state updates are dropped.
SourceFetched ==
  /\ srcFetch = "pending"
  /\ srcFetch' = "done"
  /\ objectUrls' = CreateObjectURL(objectUrls, "initial")
  /\ IF mounted
       THEN /\ ElLoad("initial")
            /\ isLoading' = FALSE
       ELSE UNCHANGED <<elSrc, elPhase, elCurrentTime, elPaused, playVars,
                        isLoading>>
  /\ last' = Did("sourceFetched", <<>>)
  /\ UNCHANGED <<mounted, propVars, isPlaying, error, duration, currentTime,
                 flagVars, elOnLoadedMetadata, timerVars, progFetch, record,
                 resumeFetches, resumeSeek, outerVars, playbackRate>>

\* .catch(err => { setError('Failed to load audio...'); setIsLoading(false) })
SourceFetchFailedKeepsLoading ==
  /\ srcFetch = "pending"
  /\ srcFetch' = "failed"
  /\ IF mounted
       THEN error' = "load" /\ isLoading' = isLoading
       ELSE UNCHANGED <<error, isLoading>>
  /\ last' = Did("sourceFetchFailed", <<>>)
  /\ UNCHANGED <<mounted, propVars, isPlaying, duration, currentTime,
                 flagVars, elVars, timerVars, playVars, progFetch, record,
                 resumeFetches, resumeSeek, objectUrls, outerVars,
                 playbackRate>>
SourceFetchFailed ==
  /\ srcFetch = "pending"
  /\ srcFetch' = "failed"
  /\ IF mounted
       THEN error' = "load" /\ isLoading' = FALSE
       ELSE UNCHANGED <<error, isLoading>>
  /\ last' = Did("sourceFetchFailed", <<>>)
  /\ UNCHANGED <<mounted, propVars, isPlaying, duration, currentTime,
                 flagVars, elVars, timerVars, playVars, progFetch, record,
                 resumeFetches, resumeSeek, objectUrls, outerVars,
                 playbackRate>>

\* ------------------------------------------------------ checkResume
\* response.ok and data.progress present
ProgressFetched(rec) ==
  /\ progFetch = "pending"
  /\ progFetch' = "done"
  /\ record' = rec
  /\ IF mounted
       THEN /\ completionPercentage' = rec.completion_percentage
            /\ resumeAvailable' = ResumeEligible(rec)
            /\ resumePosition' =
                 IF ResumeEligible(rec) THEN rec.position ELSE resumePosition
            /\ showStartOver' = IsFinished(rec)
       ELSE UNCHANGED flagVars
  /\ last' = Did("progressFetched", <<>>)
  /\ UNCHANGED <<mounted, propVars, stateVars, elVars, timerVars, playVars,
                 srcFetch, resumeFetches, resumeSeek, objectUrls, outerVars,
                 playbackRate>>

\* response not ok, or a body without progress: nothing is set
ProgressFetchEmpty ==
  /\ progFetch = "pending"
  /\ progFetch' = "empty"
  /\ last' = Did("progressFetchEmpty", <<>>)
  /\ UNCHANGED <<mounted, propVars, stateVars, flagVars, elVars, timerVars,
                 playVars, srcFetch, record, resumeFetches, resumeSeek,
                 objectUrls, outerVars, playbackRate>>

\* catch (e): the fetch or response.json() rejected
ProgressFetchFailed ==
  /\ progFetch = "pending"
  /\ progFetch' = "failed"
  /\ IF mounted
       THEN /\ resumeAvailable' = FALSE
            /\ showStartOver' = FALSE
            /\ completionPercentage' = 0
            /\ UNCHANGED resumePosition
       ELSE UNCHANGED flagVars
  /\ last' = Did("progressFetchFailed", <<>>)
  /\ UNCHANGED <<mounted, propVars, stateVars, elVars, timerVars, playVars,
                 srcFetch, record, resumeFetches, resumeSeek, objectUrls,
                 outerVars, playbackRate>>

\* ------------------------------------------------------ media events
\* onLoadStart
handleLoadStart ==
  /\ mounted
  /\ elPhase = "assigned"
  /\ elPhase' = "loading"
  /\ isLoading' = TRUE
  /\ last' = Did("loadstart", <<>>)
  /\ UNCHANGED <<mounted, propVars, isPlaying, error, duration, currentTime,
                 flagVars, elSrc, elCurrentTime, elPaused, elOnLoadedMetadata,
                 timerVars, playVars, netVars, resumeSeek, objectUrls,
                 outerVars, playbackRate>>

\* The loadedmetadata event: the React listener handleLoadedMetadata runs
\* (with autoPlay it calls handlePlay), then the onloadedmetadata property
\* handleResume installed, if any.  blocked: the browser refuses autoplay.
\* logged: sessionLogger.trackAudioLoad, called before setDuration, has
\* returned; had it thrown, the listener would have ended there.
LoadedMetadata(blocked, logged) ==
  /\ mounted
  /\ elPhase = "loading"
  /\ autoPlay => CanStartPlay
  /\ ~autoPlay => ~blocked
  /\ elPhase' = "meta"
  /\ duration' = IF logged THEN MediaDuration ELSE duration
  /\ isLoading' = IF logged THEN FALSE ELSE isLoading
  /\ LET autoPlayed == logged /\ autoPlay
         started == autoPlayed /\ ~blocked
         t1 == IF started THEN ElPlayTime(elCurrentTime, "meta")
                          ELSE elCurrentTime
         p1 == IF started THEN FALSE ELSE elPaused
         h  == elOnLoadedMetadata
         t2 == ResumeHandlerSeek(h.target, t1)
     IN  /\ pendingPlay' = IF started THEN pendingPlay + 1 ELSE pendingPlay
         /\ pendingRates' = IF started THEN Captured(pendingRates, playbackRate)
                                        ELSE pendingRates
         /\ abortedPlay' = IF autoPlayed /\ blocked THEN abortedPlay + 1
                                                    ELSE abortedPlay
         /\ IF h.set
              THEN /\ elCurrentTime' = ElPlayTime(t2, "meta")
                   /\ elPaused' = FALSE
                   /\ resumeSeek' = [done |-> TRUE,
                                     hadMeta |-> HasMetadata(elPhase'),
                                     src |-> elSrc, playFrom |-> t2]
              ELSE /\ elCurrentTime' = t1
                   /\ elPaused' = p1
                   /\ UNCHANGED resumeSeek
  /\ last' = Did("loadedmetadata", <<>>)
  /\ UNCHANGED <<mounted, propVars, isPlaying, error, currentTime, flagVars,
                 elSrc, elOnLoadedMetadata, timerVars, netVars, objectUrls,
                 aroundVars, playbackRate>>

\* The event for a player whose session logger is not followed.
handleLoadedMetadata(blocked) ==
  LoadedMetadata(blocked, TRUE) /\ UNCHANGED loggerVars

\* onCanPlay
handleCanPlay ==
  /\ mounted
  /\ elPhase = "meta"
  /\ elPhase' = "ready"
  /\ isLoading' = FALSE
  /\ last' = Did("canplay", <<>>)
  /\ UNCHANGED <<mounted, propVars, isPlaying, error, duration, currentTime,
                 flagVars, elSrc, elCurrentTime, elPaused, elOnLoadedMetadata,
                 timerVars, playVars, netVars, resumeSeek, objectUrls,
                 outerVars, playbackRate>>

\* onError: the element failed; play() promises still pending reject.
\* logged: sessionLogger.trackError, called before setError, has returned.
MediaError(logged) ==
  /\ mounted
  /\ elPhase \in {"assigned", "loading", "meta", "ready"}
  /\ elPhase' = "error"
  /\ abortedPlay' = abortedPlay + pendingPlay
  /\ pendingPlay' = 0
  /\ pendingRates' = NoPending
  /\ error' = IF logged THEN "load" ELSE error
  /\ isLoading' = IF logged THEN FALSE ELSE isLoading
  /\ last' = Did("error", <<>>)
  /\ UNCHANGED <<mounted, propVars, isPlaying, duration, currentTime,
                 flagVars, elSrc, elCurrentTime, elPaused, elOnLoadedMetadata,
                 timerVars, netVars, resumeSeek, objectUrls, aroundVars,
                 playbackRate>>

handleError == MediaError(TRUE) /\ UNCHANGED loggerVars

\* onTimeUpdate while the element plays
handleTimeUpdate ==
  /\ mounted
  /\ ~elPaused
  /\ elPhase = "ready"
  /\ elCurrentTime < MediaDuration
  /\ elCurrentTime' = Min(elCurrentTime + PlaybackStep, MediaDuration)
  /\ currentTime' = elCurrentTime'
  /\ last' = Did("timeupdate", <<>>)
  /\ UNCHANGED <<mounted, propVars, isPlaying, isLoading, error, duration,
                 flagVars, elSrc, elPhase, elPaused, elOnLoadedMetadata,
                 timerVars, playVars, netVars, resumeSeek, objectUrls,
                 outerVars, playbackRate>>

\* onEnded: playback reached the end; the element pauses itself
handleEnded ==
  /\ mounted
  /\ ~elPaused
  /\ elPhase = "ready"
  /\ elCurrentTime = MediaDuration
  /\ elPaused' = TRUE
  /\ isPlaying' = FALSE
  /\ last' = Did("ended", updateProgress(duration, "completed"))
  /\ UNCHANGED <<mounted, propVars, isLoading, error, duration, currentTime,
                 flagVars, elSrc, elPhase, elCurrentTime, elOnLoadedMetadata,
                 timerVars, playVars, netVars, resumeSeek, objectUrls,
                 outerVars, playbackRate>>

\* ------------------------------------------------------ player controls
\* handlePlay up to its await: audio.play() is requested.  blocked: the
\* browser refuses (NotAllowedError) and the element is left as it is.
handlePlay(blocked) ==
  /\ mounted
  /\ ~isPlaying
  /\ PlayPauseEnabled
  /\ CanStartPlay
  /\ IF ElPlayable /\ ~blocked
       THEN /\ elPaused' = FALSE
            /\ elCurrentTime' = ElPlayTime(elCurrentTime, elPhase)
            /\ pendingPlay' = pendingPlay + 1
            /\ pendingRates' = Captured(pendingRates, playbackRate)
            /\ UNCHANGED abortedPlay
       ELSE /\ abortedPlay' = abortedPlay + 1
            /\ UNCHANGED <<elPaused, elCurrentTime, pendingPlay, pendingRates>>
  /\ last' = Did("play", <<>>)
  /\ UNCHANGED <<mounted, propVars, stateVars, flagVars, elSrc, elPhase,
                 elOnLoadedMetadata, timerVars, netVars, resumeSeek,
                 objectUrls, outerVars, playbackRate>>

\* handlePlay after await audioRef.current.play() resolved: the state is
\* set and the interval started; its callback calls the updateProgress of
\* the render handlePlay was called in.  After unmount audioRef.current is
\* null, the read of audioRef.current.currentTime throws and the catch runs.
handlePlayResolved ==
  /\ pendingPlay > 0
  /\ ~elPaused
  /\ elPhase = "ready"
  /\ pendingPlay' = pendingPlay - 1
  /\ \E rate \in PlaybackRates :
       /\ pendingRates[rate] > 0
       /\ pendingRates' = [pendingRates EXCEPT ![rate] = @ - 1]
       /\ IF mounted
            THEN /\ isPlaying' = TRUE
                 /\ error' = "null"
                 /\ progressIntervalRef' = NewTimer
                 /\ activeTimers' = activeTimers \cup {NewTimer}
                 /\ timerRate' = [timerRate EXCEPT ![NewTimer] = rate]
            ELSE UNCHANGED <<isPlaying, error, timerVars>>
  /\ last' = Did("playResolved", <<>>)
  /\ UNCHANGED <<mounted, propVars, isLoading, duration, currentTime,
                 flagVars, elVars, abortedPlay, netVars, resumeSeek,
                 objectUrls, outerVars, playbackRate>>

\* handlePlay's catch: play() rejected
PlayErrorMessage(name) ==
  IF name = "NotAllowedError" THEN "blocked"
  ELSE IF name = "NotSupportedError" THEN "unsupported"
  ELSE "playFailed"

handlePlayRejected(name) ==
  /\ abortedPlay > 0
  /\ abortedPlay' = abortedPlay - 1
  /\ IF mounted
       THEN error' = PlayErrorMessage(name)
       ELSE UNCHANGED error
  /\ last' = Did("playRejected", <<>>)
  /\ UNCHANGED <<mounted, propVars, isPlaying, isLoading, duration,
                 currentTime, flagVars, elVars, timerVars, pendingPlay,
                 pendingRates, netVars, resumeSeek, objectUrls, outerVars,
                 playbackRate>>

\* handlePause: clearInterval(progressIntervalRef.current)
ClearedByPauseNone == activeTimers
ClearedByPause ==
  IF progressIntervalRef # 0 THEN activeTimers \ {progressIntervalRef}
                             ELSE activeTimers

handlePause ==
  /\ mounted
  /\ isPlaying
  /\ PlayPauseEnabled
  /\ elPaused' = TRUE
  /\ abortedPlay' = abortedPlay + pendingPlay
  /\ pendingPlay' = 0
  /\ pendingRates' = NoPending
  /\ isPlaying' = FALSE
  /\ activeTimers' = ClearedByPause
  /\ last' = Did("pause", updateProgress(elCurrentTime, "paused"))
  /\ UNCHANGED <<mounted, propVars, isLoading, error, duration, currentTime,
                 flagVars, elSrc, elPhase, elCurrentTime, elOnLoadedMetadata,
                 progressIntervalRef, timerRate, netVars, resumeSeek,
                 objectUrls, outerVars, playbackRate>>

\* The interval callback started by handlePlay:
\* if (audioRef.current && !audioRef.current.paused) updateProgress(...)
TimerTick(t) ==
  /\ t \in activeTimers
  /\ last' = Did("tick",
                 IF mounted /\ ~elPaused
                   THEN updateProgressOf(timerRate[t], elCurrentTime, "playing")
                   ELSE <<>>)
  /\ UNCHANGED <<mounted, propVars, stateVars, flagVars, elVars, timerVars,
                 playVars, netVars, resumeSeek, objectUrls, outerVars,
                 playbackRate>>

\* ------------------------------------------------------ seek and skip
\* Targets a caller may hand to handleSeek(newTime), in and out of range.
SeekTargets == {0 - 30, 0, 30, 60, 90}

\* Where the progress bar was clicked, in percent of its width.
ClickPercents == {0, 50, 100}

\* handleSkipForward / handleSkipBackward: the fixed offset in seconds.
SkipSeconds == 30

\* handleSeek(newTime): audioRef.current.currentTime = newTime (the element
\* clamps), setCurrentTime(newTime), updateProgress(newTime, status).
SeekStatusPlaying == "playing"
SeekStatus == IF isPlaying THEN "playing" ELSE "paused"

Sought(op, newTime) ==
  /\ mounted
  /\ elCurrentTime' = ElSeek(newTime)
  /\ currentTime' = newTime
  /\ last' = Did(op, updateProgress(newTime, SeekStatus))
  /\ UNCHANGED <<mounted, propVars, isPlaying, isLoading, error, duration,
                 flagVars, elSrc, elPhase, elPaused, elOnLoadedMetadata,
                 timerVars, playVars, netVars, resumeSeek, objectUrls,
                 aroundVars, playbackRate>>

\* handleSeek for a player whose session logger is not followed.
Seek(op, newTime) == Sought(op, newTime) /\ UNCHANGED loggerVars

handleSeek(newTime) == Seek("seek", newTime)

\* Progress bar onClick: newTime = (clickX / rect.width) * duration
ProgressBarClick(percent) == Seek("barClick", (percent * duration) \div 100)

\* const newTime = Math.min(currentTime + 30, duration)
SkipForwardTargetUnclamped == currentTime + SkipSeconds
SkipForwardTarget == Min(currentTime + SkipSeconds, duration)

\* const newTime = Math.max(currentTime - 30, 0)
SkipBackwardTarget ==
  IF currentTime - SkipSeconds > 0 THEN currentTime - SkipSeconds ELSE 0

\* The skip buttons are disabled={isLoading}.
handleSkipForward == ~isLoading /\ Seek("skipForward", SkipForwardTarget)

handleSkipBackward == ~isLoading /\ Seek("skipBackward", SkipBackwardTarget)

\* The timeupdate event the element fires once a seek or a reload has moved
\* its position: handleTimeUpdate copies audio.currentTime into the state.
handleTimeUpdateSeeked ==
  /\ mounted
  /\ currentTime # elCurrentTime
  /\ currentTime' = elCurrentTime
  /\ last' = Did("timeupdate", <<>>)
  /\ UNCHANGED <<mounted, propVars, isPlaying, isLoading, error, duration,
                 flagVars, elVars, timerVars, playVars, netVars, resumeSeek,
                 objectUrls, outerVars, playbackRate>>

\* handleBookmark: updateProgress(currentTime, 'bookmarked'); the button is
\* disabled={isLoading || !isPlaying}.
handleBookmark ==
  /\ mounted
  /\ ~isLoading /\ isPlaying
  /\ last' = Did("bookmark", updateProgress(currentTime, "bookmarked"))
  /\ UNCHANGED <<mounted, propVars, stateVars, flagVars, elVars, timerVars,
                 playVars, netVars, resumeSeek, objectUrls, outerVars,
                 playbackRate>>

\* ------------------------------------------------------ push settles
\* updateProgress after its await, for the POST the last handler issued.
\* outcome: "ok" (2xx and a parsable body: onProgressUpdate is called),
\* "badBody" (2xx, response.json() rejects), "status" (non-2xx, logged),
\* "reject" (fetch rejects, logged in the catch).
PushOutcomes == {"ok", "badBody", "status", "reject"}

IsProgressPost(req) == req.m = "POST" /\ req.what = "progress"

PushInFlight == \E i \in 1..Len(last.reqs) : IsProgressPost(last.reqs[i])

\* The user-visible error after the continuation: no path assigns it.
PushSettledErrorShown(outcome) == IF outcome = "ok" THEN error ELSE "push"
PushSettledError(outcome) == error

\* The requests the continuation issues: none (no retry on any path).
PushSettledRetry(outcome) ==
  IF outcome = "reject" THEN last.reqs ELSE <<>>
PushSettledRequests(outcome) == <<>>

\* response.ok of the answer, if there is one.
PushResponse(outcome) ==
  IF outcome \in {"ok", "badBody"} THEN "2xx"
  ELSE IF outcome = "status" THEN "non2xx" ELSE "none"

\* if (response.ok) { await response.json(); if (onProgressUpdate)
\* onProgressUpdate(position, status, playbackRate) }: the arguments are those
\* of the updateProgress call that sent the POST.  Every caller passes the
\* prop (demo.jsx, App.jsx, ChapterPlayer.jsx).
OnProgressUpdate(req) ==
  [position |-> req.position, status |-> req.status,
   playbackRate |-> req.playback_speed]
PushSettledCallbacks(outcome, reqs) ==
  IF outcome = "ok"
    THEN [i \in 1..Len(SelectSeq(reqs, IsProgressPost)) |->
            OnProgressUpdate(SelectSeq(reqs, IsProgressPost)[i])]
    ELSE <<>>

PushSettled(outcome) ==
  /\ PushInFlight
  /\ error' = PushSettledError(outcome)
  /\ last' = DidCall(IF outcome = "ok" THEN "pushOk" ELSE "pushFailed",
                     PushSettledRequests(outcome),
                     PushSettledCallbacks(outcome, last.reqs),
                     PushResponse(outcome))
  /\ UNCHANGED <<mounted, propVars, isPlaying, isLoading, duration,
                 currentTime, flagVars, elVars, timerVars, playVars, netVars,
                 resumeSeek, objectUrls, outerVars, playbackRate>>

\* ------------------------------------------------------ resume / restart
\* handleResume up to its await (with a token), or whole (without)
handleResume ==
  /\ mounted
  /\ ResumeVisible
  /\ ~isLoading
  /\ Len(resumeFetches) < MaxResumeFetches
  /\ error' = "null"
  /\ IF authToken
       THEN /\ isLoading' = TRUE
            /\ resumeFetches' = Append(resumeFetches, resumePosition)
            /\ last' = Did("resume", <<GetAudio>>)
            /\ UNCHANGED <<isPlaying, elVars, playVars>>
       ELSE /\ ElLoad("resume")
            /\ isLoading' = FALSE
            /\ isPlaying' = TRUE
            /\ elOnLoadedMetadata' = [set |-> TRUE, target |-> resumePosition]
            /\ last' = Did("resume", <<>>)
            /\ UNCHANGED resumeFetches
  /\ UNCHANGED <<mounted, propVars, duration, currentTime, flagVars,
                 timerVars, srcFetch, progFetch, record, resumeSeek,
                 objectUrls, outerVars, playbackRate>>

\* handleResume after the fetch and response.blob() succeeded
handleResumeFetched(i) ==
  /\ i \in 1..Len(resumeFetches)
  /\ resumeFetches' = RemoveAt(resumeFetches, i)
  /\ objectUrls' = CreateObjectURL(objectUrls, "resume")
  /\ IF mounted
       THEN /\ ElLoad("resume")
            /\ isLoading' = FALSE
            /\ isPlaying' = TRUE
            /\ elOnLoadedMetadata' = [set |-> TRUE, target |-> resumeFetches[i]]
       ELSE UNCHANGED <<elVars, playVars, isLoading, isPlaying>>
  /\ last' = Did("resumeFetched", <<>>)
  /\ UNCHANGED <<mounted, propVars, error, duration, currentTime, flagVars,
                 timerVars, srcFetch, progFetch, record, resumeSeek,
                 outerVars, playbackRate>>

\* handleResume's catch
handleResumeFailed(i) ==
  /\ i \in 1..Len(resumeFetches)
  /\ resumeFetches' = RemoveAt(resumeFetches, i)
  /\ IF mounted
       THEN error' = "resume" /\ isLoading' = FALSE
       ELSE UNCHANGED <<error, isLoading>>
  /\ last' = Did("resumeFailed", <<>>)
  /\ UNCHANGED <<mounted, propVars, isPlaying, duration, currentTime,
                 flagVars, elVars, timerVars, playVars, srcFetch, progFetch,
                 record, resumeSeek, objectUrls, outerVars, playbackRate>>

\* onClick of Restart Book and of Start Over Again:
\* currentTime = 0; play().catch(() => {}); setIsPlaying(true)
RestartRequestsWithPush == updateProgress(0, "playing")
RestartRequests == <<>>

RestartFromZero(op) ==
  /\ elCurrentTime' = ElSeek(0)
  /\ elPaused' = IF ElPlayable THEN FALSE ELSE elPaused
  /\ isPlaying' = TRUE
  /\ last' = Did(op, RestartRequests)
  /\ UNCHANGED <<mounted, propVars, isLoading, error, duration, currentTime,
                 flagVars, elSrc, elPhase, elOnLoadedMetadata, timerVars,
                 playVars, netVars, resumeSeek, objectUrls, outerVars,
                 playbackRate>>

StartOverClick ==
  /\ mounted
  /\ StartOverVisible
  /\ ~isLoading
  /\ RestartFromZero("startOver")

RestartBookClick ==
  /\ mounted
  /\ RestartBookVisible
  /\ ~isLoading
  /\ RestartFromZero("restartBook")

\* ------------------------------------------------------ cleanup effect
Unmounted ==
  /\ mounted
  /\ mounted' = FALSE
  /\ activeTimers' = IF progressIntervalRef # 0
                       THEN activeTimers \ {progressIntervalRef}
                       ELSE activeTimers
  /\ last' = Did("unmount", <<>>)
  /\ UNCHANGED <<propVars, stateVars, flagVars, elVars, progressIntervalRef,
                 timerRate, playVars, netVars, resumeSeek, objectUrls,
                 aroundVars, playbackRate>>

\* The cleanups for a player whose session logger is not followed.
Unmount == Unmounted /\ UNCHANGED loggerVars

\* ------------------------------------------------------ AuthProvider
GetUserMe == Request("GET", "user/me")
PostLogin == Request("POST", "user/login")

\* The pages that render <Login> inside an <AuthProvider>.
AuthPages == {"app", "chapterDemo"}

\* No player is rendered: the page shows the loading screen, the login form
\* or a list to choose from.
NoPlayer ==
  /\ mounted = FALSE
  /\ authToken = FALSE
  /\ autoPlay = FALSE
  /\ isPlaying = FALSE
  /\ isLoading = FALSE
  /\ error = "null"
  /\ duration = 0
  /\ currentTime = 0
  /\ resumeAvailable = FALSE
  /\ resumePosition = Null
  /\ showStartOver = FALSE
  /\ completionPercentage = 0
  /\ elSrc = "none"
  /\ elPhase = "empty"
  /\ elCurrentTime = 0
  /\ elPaused = TRUE
  /\ elOnLoadedMetadata = [set |-> FALSE, target |-> Null]
  /\ progressIntervalRef = 0
  /\ activeTimers = {}
  /\ pendingPlay = 0
  /\ abortedPlay = 0
  /\ pendingRates = NoPending
  /\ playbackRate = 1
  /\ timerRate = [t \in 1..MaxTimers |-> 1]
  /\ srcFetch = "none"
  /\ progFetch = "none"
  /\ record = NoRecord
  /\ resumeFetches = <<>>
  /\ resumeSeek = [done |-> FALSE, hadMeta |-> FALSE, src |-> "none",
                   playFrom |-> Null]
  /\ objectUrls = {}
  /\ staleSrc = 0
  /\ staleProg = 0
  /\ caller = "none"
  /\ resourceId = Null
  /\ intro = NoIntro

playerVars == <<mounted, propVars, stateVars, playbackRate, flagVars, elVars,
                timerVars, playVars, netVars, resumeSeek, objectUrls,
                staleVars, callerVars>>

\* The AuthProvider's mount effect for the token found in localStorage:
\* if (token) { setAuthToken(token); validateToken(token) }
\* else setIsLoading(false)
ProviderMountedNoElse(token) ==
  [ctxToken |-> token,
   ctxIsLoading |-> TRUE,
   validation |-> IF token # "none" THEN "pending" ELSE "none",
   reqs |-> IF token # "none" THEN <<GetUserMe>> ELSE <<>>]
ProviderMounted(token) ==
  [ctxToken |-> token,
   ctxIsLoading |-> token # "none",
   validation |-> IF token # "none" THEN "pending" ELSE "none",
   reqs |-> IF token # "none" THEN <<GetUserMe>> ELSE <<>>]

\* useState({ email: '', password: '' })
NoCredentials == [email |-> FALSE, password |-> FALSE]

AuthInit ==
  /\ NoPlayer
  /\ page \in AuthPages
  /\ storedToken \in {"none", "old"}
  /\ ctxToken = ProviderMounted(storedToken).ctxToken
  /\ ctxUser = "none"
  /\ ctxIsLoading = ProviderMounted(storedToken).ctxIsLoading
  /\ validation = ProviderMounted(storedToken).validation
  /\ loginFetch = "none"
  /\ loginLoading = FALSE
  /\ loginError = "null"
  /\ credentials = NoCredentials
  /\ LoggerConstructed
  /\ last = Did("providerMount", ProviderMounted(storedToken).reqs)

\* isAuthenticated: !!authToken
isAuthenticated == ctxToken # "none"

\* if (isLoading) <loading screen>; if (!isAuthenticated) <Login>
LoginRendered == page \in AuthPages /\ ~ctxIsLoading /\ ~isAuthenticated

\* logout(): localStorage.removeItem(config.auth.tokenKey)
LogoutStorageKept == storedToken
LogoutStorage == "none"

\* logout(): setAuthToken(null); setUser(null); removeItem(tokenKey)
logout ==
  /\ ctxToken' = "none"
  /\ ctxUser' = "none"
  /\ storedToken' = LogoutStorage

\* validateToken: response.ok and the body parsed
ValidateOk ==
  /\ validation = "pending"
  /\ validation' = "ok"
  /\ ctxUser' = "user"
  /\ ctxIsLoading' = FALSE
  /\ last' = Did("validateOk", <<>>)
  /\ UNCHANGED <<playerVars, loggerVars, page, storedToken, ctxToken, loginFetch,
                 loginLoading, loginError, credentials>>

\* validateToken: non-2xx ("status"), the fetch rejects ("reject") or
\* response.json() rejects ("badBody"): logout(), then the finally
ValidateFailed(kind) ==
  /\ validation = "pending"
  /\ validation' = "failed"
  /\ logout
  /\ ctxIsLoading' = FALSE
  /\ last' = Did("validateFailed", <<>>)
  /\ UNCHANGED <<playerVars, loggerVars, page, loginFetch, loginLoading, loginError,
                 credentials>>

\* ------------------------------------------------------ Login
\* handleInputChange: a field is typed into or emptied; the inputs are
\* disabled={isLoading}
handleInputChange(field, filled) ==
  /\ LoginRendered
  /\ ~loginLoading
  /\ credentials[field] # filled
  /\ credentials' = [credentials EXCEPT ![field] = filled]
  /\ last' = Did("input", <<>>)
  /\ UNCHANGED <<playerVars, loggerVars, page, storedToken, ctxToken, ctxUser,
                 ctxIsLoading, validation, loginFetch, loginLoading,
                 loginError>>

\* handleSubmit up to its await; the submit button is
\* disabled={isLoading || !credentials.email || !credentials.password}
LoginSubmit ==
  /\ LoginRendered
  /\ ~loginLoading
  /\ credentials.email /\ credentials.password
  /\ loginLoading' = TRUE
  /\ loginError' = "null"
  /\ loginFetch' = "pending"
  /\ last' = Did("loginSubmit", <<PostLogin>>)
  /\ UNCHANGED <<playerVars, loggerVars, page, storedToken, ctxToken, ctxUser,
                 ctxIsLoading, validation, credentials>>

\* The onLoginSuccess prop: App passes the provider's login, the chapter
\* demo renders <Login /> without it.
HasOnLoginSuccess(p) == p = "app"

LoginResponses == {"token", "noToken", "status", "reject"}

\* handleSubmit after the await.  "token": 2xx with data.token, stored in
\* localStorage, then onLoginSuccess(token, data) is called; calling the
\* missing prop throws a TypeError, which the catch shows as the error.
LoginResponded(resp) ==
  /\ loginFetch = "pending"
  /\ loginFetch' = "none"
  /\ loginLoading' = FALSE
  /\ IF resp = "token"
       THEN /\ storedToken' = "new"
            /\ IF HasOnLoginSuccess(page)
                 THEN /\ ctxToken' = "new"
                      /\ ctxUser' = "user"
                      /\ credentials' = NoCredentials
                      /\ UNCHANGED loginError
                 ELSE /\ loginError' = "notAFunction"
                      /\ UNCHANGED <<ctxToken, ctxUser, credentials>>
       ELSE /\ loginError' = resp
            /\ UNCHANGED <<storedToken, ctxToken, ctxUser, credentials>>
  /\ last' = Did(IF resp = "token" THEN "loginOk" ELSE "loginFailed", <<>>)
  /\ UNCHANGED <<playerVars, loggerVars, page, ctxIsLoading, validation>>

\* The Logout button of the authenticated page
LogoutClick ==
  /\ page \in AuthPages
  /\ ~ctxIsLoading /\ isAuthenticated
  /\ logout
  /\ last' = Did("logout", <<>>)
  /\ UNCHANGED <<playerVars, loggerVars, page, ctxIsLoading, validation, loginFetch,
                 loginLoading, loginError, credentials>>

\* The page is loaded again: a new AuthProvider and Login mount, whatever
\* was in flight is dropped and the mount effect reads localStorage.
Reload ==
  /\ page \in AuthPages
  /\ ctxToken' = ProviderMounted(storedToken).ctxToken
  /\ ctxUser' = "none"
  /\ ctxIsLoading' = ProviderMounted(storedToken).ctxIsLoading
  /\ validation' = ProviderMounted(storedToken).validation
  /\ loginFetch' = "none"
  /\ loginLoading' = FALSE
  /\ loginError' = "null"
  /\ credentials' = NoCredentials
  /\ last' = Did("providerMount", ProviderMounted(storedToken).reqs)
  /\ UNCHANGED <<playerVars, loggerVars, page, storedToken>>

AuthNext ==
  \/ \E field \in {"email", "password"}, filled \in BOOLEAN :
       handleInputChange(field, filled)
  \/ ValidateOk
  \/ \E kind \in {"status", "reject", "badBody"} : ValidateFailed(kind)
  \/ LoginSubmit
  \/ \E resp \in LoginResponses : LoginResponded(resp)
  \/ LogoutClick
  \/ Reload

AuthSpec == AuthInit /\ [][AuthNext]_vars

\* The validation request resolves or rejects: validateToken's continuation
\* runs.
AuthLiveSpec ==
  /\ AuthInit
  /\ [][AuthNext]_vars
  /\ WF_vars(ValidateOk
               \/ \E kind \in {"status", "reject", "badBody"} :
                    ValidateFailed(kind))

\* ------------------------------------------------------ specification
Next ==
  \/ SourceFetched
  \/ SourceFetchFailed
  \/ \E rec \in ProgressRecords : ProgressFetched(rec)
  \/ ProgressFetchEmpty
  \/ ProgressFetchFailed
  \/ handleLoadStart
  \/ \E blocked \in BOOLEAN : handleLoadedMetadata(blocked)
  \/ handleCanPlay
  \/ handleError
  \/ handleTimeUpdate
  \/ handleEnded
  \/ \E blocked \in BOOLEAN : handlePlay(blocked)
  \/ handlePlayResolved
  \/ \E name \in {"NotAllowedError", "NotSupportedError", "AbortError"} :
       handlePlayRejected(name)
  \/ handlePause
  \/ \E t \in 1..MaxTimers : TimerTick(t)
  \/ handleResume
  \/ \E i \in 1..MaxResumeFetches : handleResumeFetched(i)
  \/ \E i \in 1..MaxResumeFetches : handleResumeFailed(i)
  \/ StartOverClick
  \/ RestartBookClick
  \/ Unmount

Spec == Init /\ [][Next]_vars

\* The player with its seek, skip and bookmark controls and the settling of
\* its progress pushes, for a resource the server holds no progress for.
ControlNext ==
  \/ SourceFetched
  \/ SourceFetchFailed
  \/ ProgressFetchEmpty
  \/ ProgressFetchFailed
  \/ handleLoadStart
  \/ \E blocked \in BOOLEAN : handleLoadedMetadata(blocked)
  \/ handleCanPlay
  \/ handleError
  \/ handleTimeUpdate
  \/ handleTimeUpdateSeeked
  \/ handleEnded
  \/ \E blocked \in BOOLEAN : handlePlay(blocked)
  \/ handlePlayResolved
  \/ \E name \in {"NotAllowedError", "NotSupportedError", "AbortError"} :
       handlePlayRejected(name)
  \/ handlePause
  \/ \E t \in 1..MaxTimers : TimerTick(t)
  \/ \E percent \in ClickPercents : ProgressBarClick(percent)
  \/ handleSkipForward
  \/ handleSkipBackward
  \/ handleBookmark
  \/ \E outcome \in PushOutcomes : PushSettled(outcome)
  \/ Unmount

ControlSpec == Init /\ [][ControlNext]_vars

\* The same player when handleSeek is handed any target.
SeekNext ==
  \/ ControlNext
  \/ \E newTime \in SeekTargets : handleSeek(newTime)

SeekSpec == Init /\ [][SeekNext]_vars

\* ------------------------------------------------------ playback rate
\* handlePlaybackRateChange(newRate): audioRef.current.playbackRate = newRate;
\* setPlaybackRate(newRate).  The next render creates a new updateProgress;
\* closures created before keep the one they hold.
handlePlaybackRateChange(newRate) ==
  /\ mounted
  /\ newRate # playbackRate
  /\ playbackRate' = newRate
  /\ last' = Did("rateChange", <<>>)
  /\ UNCHANGED <<mounted, propVars, stateVars, flagVars, elVars, timerVars,
                 playVars, netVars, resumeSeek, objectUrls, outerVars>>

RateNext ==
  \/ ControlNext
  \/ \E newRate \in PlaybackRates : handlePlaybackRateChange(newRate)

\* The player of ControlSpec with its speed <select>.
RateSpec == Init /\ [][RateNext]_vars

\* ------------------------------------------------------ download
\* handleDownload: with a token, fetch(streamingUrl, { Authorization }) and
\* return; without one, a click on a link to the streaming URL.  The button
\* is disabled={isLoading}.
handleDownload ==
  /\ mounted
  /\ ~isLoading
  /\ last' = Did("download", IF authToken THEN <<GetAudio>> ELSE <<>>)
  /\ UNCHANGED <<mounted, propVars, stateVars, flagVars, elVars, timerVars,
                 playVars, netVars, resumeSeek, objectUrls, outerVars,
                 playbackRate>>

\* The download's fetch is the request the last handler issued.
DownloadInFlight == last.op = "download" /\ last.reqs # <<>>

\* .then(blob => { url = createObjectURL(blob); link.click();
\*                 revokeObjectURL(url) }): the URL does not outlive the step.
DownloadFetched ==
  /\ DownloadInFlight
  /\ last' = Did("downloadFetched", <<>>)
  /\ UNCHANGED <<mounted, propVars, stateVars, flagVars, elVars, timerVars,
                 playVars, netVars, resumeSeek, objectUrls, outerVars,
                 playbackRate>>

\* .catch(err => { ...; setError('Download failed. Please try again.') }),
\* reached when the fetch rejects or the response is not ok.
DownloadFailed ==
  /\ DownloadInFlight
  /\ error' = "download"
  /\ last' = Did("downloadFailed", <<>>)
  /\ UNCHANGED <<mounted, propVars, isPlaying, isLoading, duration,
                 currentTime, flagVars, elVars, timerVars, playVars, netVars,
                 resumeSeek, objectUrls, outerVars, playbackRate>>

DownloadNext ==
  \/ ControlNext
  \/ handleDownload
  \/ DownloadFetched
  \/ DownloadFailed

\* The player of ControlSpec with its download button.
DownloadSpec == Init /\ [][DownloadNext]_vars

\* ------------------------------------------------------ source resolution
\* The fetch(streamingUrl, { headers: { Authorization } }) calls among the
\* requests a handler issued.
AudioRequests(reqs) == Cardinality({i \in 1..Len(reqs) : reqs[i] = GetAudio})

\* The player from mount until the element can play: the continuations of
\* the mount effects and the element's load events.
MountNext ==
  \/ SourceFetched
  \/ SourceFetchFailed
  \/ ProgressFetchEmpty
  \/ ProgressFetchFailed
  \/ handleLoadStart
  \/ \E blocked \in BOOLEAN : handleLoadedMetadata(blocked)
  \/ handleCanPlay
  \/ handleError
  \/ handlePlayResolved
  \/ \E name \in {"NotAllowedError", "NotSupportedError", "AbortError"} :
       handlePlayRejected(name)
  \/ Unmount

\* The promise of the init effect's fetch settles (fulfilled or rejected), so
\* one of its two continuations runs.
MountSpec ==
  Init /\ [][MountNext]_vars /\ WF_vars(SourceFetched \/ SourceFetchFailed)

\* ------------------------------------------------------ player and logger
\* The levels sessionLogger passes to AudioPlayerLogger.log.
SessionLevels == {"info", "debug", "warn", "error"}
\* The keys of `logger`, which log calls as logger[level](...).
LoggerKeys == {"error", "warn", "info", "debug", "trace"}

\* A method of sessionLogger returns to its caller: log calls logger[level],
\* trackPerformance (behind trackAudioLoad, trackSeek, trackNetworkRequest)
\* calls logger.info, trackError calls logger.error, and nothing else in
\* them can throw.
SessionLoggerThrowsOnTrack(method) == method \in SessionLevels
SessionLoggerReturns(method) ==
  IF method \in SessionLevels THEN method \in LoggerKeys
  ELSE IF method = "trackError" THEN "error" \in LoggerKeys
  ELSE "info" \in LoggerKeys

\* trackAudioLoad(...) inside handleLoadedMetadata
handleLoadedMetadataLogged(blocked) ==
  /\ trackCalls < MaxTrackCalls
  /\ LoadedMetadata(blocked, SessionLoggerReturns("trackAudioLoad"))
  /\ performanceMetrics' = TrackPerformance(performanceMetrics, "loadTimes")
  /\ trackCalls' = trackCalls + 1
  /\ UNCHANGED <<sessionLogs, logCalls>>

\* trackError(...) inside handleError
handleErrorLogged ==
  /\ trackCalls < MaxTrackCalls
  /\ MediaError(SessionLoggerReturns("trackError"))
  /\ performanceMetrics' = TrackError(performanceMetrics)
  /\ trackCalls' = trackCalls + 1
  /\ UNCHANGED <<sessionLogs, logCalls>>

\* trackSeek(oldTime, newTime, seekDuration), the last statement but one of
\* handleSeek: every state update precedes it.
SeekLogged(op, newTime) ==
  /\ trackCalls < MaxTrackCalls
  /\ Sought(op, newTime)
  /\ performanceMetrics' = TrackPerformance(performanceMetrics, "seekOperations")
  /\ trackCalls' = trackCalls + 1
  /\ UNCHANGED <<sessionLogs, logCalls>>

ProgressBarClickLogged(percent) ==
  SeekLogged("barClick", (percent * duration) \div 100)

handleSkipForwardLogged ==
  ~isLoading /\ SeekLogged("skipForward", SkipForwardTarget)

handleSkipBackwardLogged ==
  ~isLoading /\ SeekLogged("skipBackward", SkipBackwardTarget)

\* The cleanup of the first effect: sessionLogger.info('Component unmounting')
UnmountLogged ==
  /\ Unmounted
  /\ sessionLogs' = Log(sessionLogs, logCalls + 1)
  /\ logCalls' = logCalls + 1
  /\ UNCHANGED <<performanceMetrics, trackCalls>>

\* After the mount effects: sessionLogger.info('Audio Player initialized')
TelemetryInit ==
  /\ PlayerInit
  /\ caller = "demo"
  /\ resourceId = Null
  /\ intro = NoIntro
  /\ NoAuthProvider
  /\ sessionLogs = Log(<<>>, 1)
  /\ logCalls = 1
  /\ performanceMetrics = NoMetrics
  /\ trackCalls = 0

TelemetryNext ==
  \/ SourceFetched
  \/ SourceFetchFailed
  \/ ProgressFetchEmpty
  \/ ProgressFetchFailed
  \/ handleLoadStart
  \/ \E blocked \in BOOLEAN : handleLoadedMetadataLogged(blocked)
  \/ handleCanPlay
  \/ handleErrorLogged
  \/ handleTimeUpdate
  \/ handleTimeUpdateSeeked
  \/ handleEnded
  \/ \E blocked \in BOOLEAN : handlePlay(blocked)
  \/ handlePlayResolved
  \/ \E name \in {"NotAllowedError", "NotSupportedError", "AbortError"} :
       handlePlayRejected(name)
  \/ handlePause
  \/ \E t \in 1..MaxTimers : TimerTick(t)
  \/ \E percent \in ClickPercents : ProgressBarClickLogged(percent)
  \/ handleSkipForwardLogged
  \/ handleSkipBackwardLogged
  \/ handleBookmark
  \/ \E outcome \in PushOutcomes : PushSettled(outcome)
  \/ UnmountLogged

\* The player of ControlSpec with the session logger's state followed.
TelemetrySpec == TelemetryInit /\ [][TelemetryNext]_vars

\* Everything but the session logger's state.
quietVars == <<mounted, propVars, stateVars, playbackRate, flagVars, elVars,
               timerVars, playVars, netVars, resumeSeek, objectUrls,
               aroundVars, last>>

\* A step of the player whose sessionLogger calls are no-ops, whatever the
\* logger's state does meanwhile.
QuietNext ==
  \/ ControlNext
  \/ \E blocked \in BOOLEAN : LoadedMetadata(blocked, TRUE)
  \/ MediaError(TRUE)
  \/ \E percent \in ClickPercents :
       Sought("barClick", (percent * duration) \div 100)
  \/ ~isLoading /\ Sought("skipForward", SkipForwardTarget)
  \/ ~isLoading /\ Sought("skipBackward", SkipBackwardTarget)
  \/ Unmounted

\* ------------------------------------------------------ the logger alone
\* The module's singleton before any page has rendered a player.
LoggerInit ==
  /\ NoPlayer
  /\ NoAuthProvider
  /\ LoggerConstructed
  /\ last = Did("construct", <<>>)

\* sessionLogger.info / debug / warn / error: audioPlayerLogger.log(level,
\* category, message, data).  The entry is the call's number: the queue
\* treats every level, category and message alike.
SessionLog ==
  /\ logCalls < MaxLogCalls
  /\ sessionLogs' = Log(sessionLogs, logCalls + 1)
  /\ logCalls' = logCalls + 1
  /\ last' = Did("log", <<>>)
  /\ UNCHANGED <<playerVars, authVars, performanceMetrics, trackCalls>>

SessionLogNext == SessionLog

SessionLogSpec == LoggerInit /\ [][SessionLogNext]_vars

\* trackPerformance(type, ...) through one of its three callers; the
\* logger.info that follows writes to the console only.
Track(type, max) ==
  /\ performanceMetrics[type] < max
  /\ performanceMetrics' = TrackPerformance(performanceMetrics, type)
  /\ trackCalls' = trackCalls + 1
  /\ last' = Did(type, <<>>)
  /\ UNCHANGED <<playerVars, authVars, sessionLogs, logCalls>>

trackAudioLoad == Track("loadTimes", MaxTrackCalls)
trackSeek == Track("seekOperations", MaxSeekTracks)
trackNetworkRequest == Track("networkRequests", MaxTrackCalls)

\* trackError(error, context)
trackError ==
  /\ performanceMetrics.errors < MaxTrackCalls
  /\ performanceMetrics' = TrackError(performanceMetrics)
  /\ trackCalls' = trackCalls + 1
  /\ last' = Did("errors", <<>>)
  /\ UNCHANGED <<playerVars, authVars, sessionLogs, logCalls>>

MetricsNext ==
  \/ trackAudioLoad
  \/ trackSeek
  \/ trackNetworkRequest
  \/ trackError

\* The logger's performance queues, from the constructed singleton.
MetricsSpec == LoggerInit /\ [][MetricsNext]_vars

TypeOK ==
  /\ mounted \in BOOLEAN
  /\ isPlaying \in BOOLEAN
  /\ elPhase \in {"empty", "assigned", "loading", "meta", "ready", "error"}
  /\ activeTimers \subseteq 1..MaxTimers
  /\ progressIntervalRef \in 0..MaxTimers

\* ------------------------------------------------------ props change
\* authToken or apiBaseUrl changes while the player is mounted (the inputs
\* of pages/demo.jsx): both effects list them as dependencies and run
\* again.  The init effect: setIsLoading(true); setError(null); fetch.
\* checkResume: fetch.  Neither cancels the fetch of its earlier run.
PropsChanged ==
  /\ mounted
  /\ authToken
  /\ srcFetch = "pending" => staleSrc < MaxStaleFetches
  /\ progFetch = "pending" => staleProg < MaxStaleFetches
  /\ isLoading' = TRUE
  /\ error' = "null"
  /\ staleSrc' = IF srcFetch = "pending" THEN staleSrc + 1 ELSE staleSrc
  /\ srcFetch' = "pending"
  /\ staleProg' = IF progFetch = "pending" THEN staleProg + 1 ELSE staleProg
  /\ progFetch' = "pending"
  /\ record' = NoRecord
  /\ last' = Did("propsChanged", <<GetAudio, GetProgress>>)
  /\ UNCHANGED <<mounted, propVars, isPlaying, duration, currentTime,
                 flagVars, elVars, timerVars, playVars, resumeFetches,
                 resumeSeek, objectUrls, callerVars, authVars, playbackRate,
                 loggerVars>>

\* The init effect's .then of an earlier run
StaleSourceFetched ==
  /\ staleSrc > 0
  /\ staleSrc' = staleSrc - 1
  /\ objectUrls' = CreateObjectURL(objectUrls, "initial")
  /\ IF mounted
       THEN /\ ElLoad("initial")
            /\ isLoading' = FALSE
       ELSE UNCHANGED <<elSrc, elPhase, elCurrentTime, elPaused, playVars,
                        isLoading>>
  /\ last' = Did("sourceFetched", <<>>)
  /\ UNCHANGED <<mounted, propVars, isPlaying, error, duration, currentTime,
                 flagVars, elOnLoadedMetadata, timerVars, netVars, resumeSeek,
                 staleProg, callerVars, authVars, playbackRate, loggerVars>>

\* The init effect's .catch of an earlier run
StaleSourceFetchFailed ==
  /\ staleSrc > 0
  /\ staleSrc' = staleSrc - 1
  /\ IF mounted
       THEN error' = "load" /\ isLoading' = FALSE
       ELSE UNCHANGED <<error, isLoading>>
  /\ last' = Did("sourceFetchFailed", <<>>)
  /\ UNCHANGED <<mounted, propVars, isPlaying, duration, currentTime,
                 flagVars, elVars, timerVars, playVars, netVars, resumeSeek,
                 objectUrls, staleProg, callerVars, authVars, playbackRate,
                 loggerVars>>

\* checkResume of an earlier run: response.ok and data.progress present
StaleProgressFetched(rec) ==
  /\ staleProg > 0
  /\ staleProg' = staleProg - 1
  /\ IF mounted
       THEN /\ completionPercentage' = rec.completion_percentage
            /\ resumeAvailable' = ResumeEligible(rec)
            /\ resumePosition' =
                 IF ResumeEligible(rec) THEN rec.position ELSE resumePosition
            /\ showStartOver' = IsFinished(rec)
       ELSE UNCHANGED flagVars
  /\ last' = Did("progressFetched", <<>>)
  /\ UNCHANGED <<mounted, propVars, stateVars, elVars, timerVars, playVars,
                 netVars, resumeSeek, objectUrls, staleSrc, callerVars,
                 authVars, playbackRate, loggerVars>>

\* checkResume of an earlier run: not ok, or no progress in the body
StaleProgressFetchEmpty ==
  /\ staleProg > 0
  /\ staleProg' = staleProg - 1
  /\ last' = Did("progressFetchEmpty", <<>>)
  /\ UNCHANGED <<mounted, propVars, stateVars, flagVars, elVars, timerVars,
                 playVars, netVars, resumeSeek, objectUrls, staleSrc,
                 callerVars, authVars, playbackRate, loggerVars>>

\* checkResume of an earlier run: its catch
StaleProgressFetchFailed ==
  /\ staleProg > 0
  /\ staleProg' = staleProg - 1
  /\ IF mounted
       THEN /\ resumeAvailable' = FALSE
            /\ showStartOver' = FALSE
            /\ completionPercentage' = 0
            /\ UNCHANGED resumePosition
       ELSE UNCHANGED flagVars
  /\ last' = Did("progressFetchFailed", <<>>)
  /\ UNCHANGED <<mounted, propVars, stateVars, elVars, timerVars, playVars,
                 netVars, resumeSeek, objectUrls, staleSrc, callerVars,
                 authVars, playbackRate, loggerVars>>

\* pages/demo.jsx: <AudioPlayer authToken={authToken} apiBaseUrl={apiBaseUrl}
\* autoPlay={false}>, rendered while the token input is not empty.
PropInit == Init /\ authToken /\ ~autoPlay

PropNext ==
  \/ PropsChanged
  \/ SourceFetched
  \/ SourceFetchFailed
  \/ StaleSourceFetched
  \/ StaleSourceFetchFailed
  \/ \E rec \in ProgressRecords : ProgressFetched(rec)
  \/ ProgressFetchEmpty
  \/ ProgressFetchFailed
  \/ \E rec \in ProgressRecords : StaleProgressFetched(rec)
  \/ StaleProgressFetchEmpty
  \/ StaleProgressFetchFailed
  \/ handleLoadStart
  \/ \E blocked \in BOOLEAN : handleLoadedMetadata(blocked)
  \/ handleCanPlay
  \/ handleError
  \/ Unmount

PropSpec == PropInit /\ [][PropNext]_vars

\* The player of SeekSpec mounted with a token (without one updateProgress
\* returns before it sends anything) and without the autoPlay prop.
PushSpec == PropInit /\ [][SeekNext]_vars

\* The player with its Resume button under a prop change: the effects'
\* current fetches, the element's load events and Resume.
ReloadNext ==
  \/ PropsChanged
  \/ SourceFetched
  \/ SourceFetchFailed
  \/ \E rec \in ProgressRecords : ProgressFetched(rec)
  \/ ProgressFetchEmpty
  \/ ProgressFetchFailed
  \/ handleLoadStart
  \/ \E blocked \in BOOLEAN : handleLoadedMetadata(blocked)
  \/ handleCanPlay
  \/ handleResume
  \/ \E i \in 1..MaxResumeFetches : handleResumeFetched(i)
  \/ \E i \in 1..MaxResumeFetches : handleResumeFailed(i)

ReloadSpec == PropInit /\ [][ReloadNext]_vars

\* ------------------------------------------------------ endpoints
\* const BOOK_ID = 2
BOOK_ID == 2
\* const hardcodedId = 4
hardcodedId == 4

\* The ids a caller may hand over: bookId={selectedBook.id} in App, the
\* chapter_id of the chapter selected in ChapterPlayer.
BookIds == {1, 2, 3}
ChapterIds == {4, 5}

\* An endpoint /audioStreaming/<kind>/<id>/<what>.
Endpoint(kind, id, what) == [kind |-> kind, id |-> id, what |-> what]

\* `${apiBaseUrl}/audioStreaming/books/${BOOK_ID}/audio?resume=true`
getStreamingUrl == Endpoint("books", BOOK_ID, "audio")
\* `${apiBaseUrl}/audioStreaming/books/${BOOK_ID}/progress`
getProgressUrl == Endpoint("books", BOOK_ID, "progress")

\* ChapterPlayer hands these to the player as streamUrl and progressUrl,
\* props the player does not read.
getChapterStreamUrl(chapterId) == Endpoint("chapters", hardcodedId, "audio")
getChapterProgressUrl(chapterId) ==
  Endpoint("chapters", hardcodedId, "progress")

\* The URL the player fetches for a request it issues.
RequestUrl(req) == IF req.what = "audio" THEN getStreamingUrl ELSE getProgressUrl

\* The endpoint of the caller's resource for that request.
ResourceUrl(req) ==
  Endpoint(IF caller = "chapters" THEN "chapters" ELSE "books", resourceId,
           req.what)

\* The page is authenticated: App and the chapter demo render the players
\* only then.
Authenticated ==
  /\ page \in AuthPages
  /\ storedToken = "old"
  /\ ctxToken = "old"
  /\ ctxUser = "user"
  /\ ctxIsLoading = FALSE
  /\ validation = "ok"
  /\ loginFetch = "none"
  /\ loginLoading = FALSE
  /\ loginError = "null"
  /\ credentials = NoCredentials

\* App renders <AudioPlayer bookId={selectedBook.id}>; ChapterPlayer selects
\* its first chapter with chapter_id 4 and renders <AudioPlayer chapter=...>.
EndpointInit ==
  /\ PlayerInit
  /\ authToken
  /\ Authenticated
  /\ LoggerConstructed
  /\ \/ caller = "app" /\ page = "app" /\ resourceId \in BookIds
     \/ caller = "chapters" /\ resourceId = hardcodedId
  /\ intro = IF caller = "app"
               THEN [NoIntro EXCEPT !.progress = resourceId]
               ELSE NoIntro

\* fetchIntroProgress(book): App's own GET /audioStreaming/bookintro/<id>/progress
GetIntroProgress == Request("GET", "bookintro/progress")

\* A request the player itself issues.
IsPlayerRequest(req) == req.what \in {"audio", "progress"}

\* App's book <select> changes selectedBook and fetches the book's intro
\* progress: the mounted player (it has no key) receives the new bookId.
SelectedBook(book) ==
  /\ mounted
  /\ caller = "app"
  /\ book # resourceId
  /\ resourceId' = book
  /\ last' = Did("selectBook", <<GetIntroProgress>>)
  /\ UNCHANGED <<mounted, propVars, stateVars, flagVars, elVars, timerVars,
                 playVars, netVars, resumeSeek, objectUrls, staleVars,
                 caller, authVars, playbackRate, loggerVars>>

\* The selection as the player sees it; App's own introduction state is
\* followed in IntroSpec.
SelectBook(book) == SelectedBook(book) /\ UNCHANGED intro

\* handleChapterSelect(chapter): setSelectedChapter(chapter); the mounted
\* player receives the new chapter, streamUrl and progressUrl props.
handleChapterSelect(chapterId) ==
  /\ mounted
  /\ caller = "chapters"
  /\ chapterId # resourceId
  /\ resourceId' = chapterId
  /\ last' = Did("selectChapter", <<>>)
  /\ UNCHANGED <<mounted, propVars, stateVars, flagVars, elVars, timerVars,
                 playVars, netVars, resumeSeek, objectUrls, staleVars,
                 caller, intro, authVars, playbackRate, loggerVars>>

EndpointNext ==
  \/ ControlNext
  \/ \E book \in BookIds : SelectBook(book)
  \/ \E chapterId \in ChapterIds : handleChapterSelect(chapterId)

EndpointSpec == EndpointInit /\ [][EndpointNext]_vars

\* ------------------------------------------------------ App: book intro
\* fetchIntroProgress(book) up to its await: setLoadingIntro(true);
\* setIntroError(null); fetch.  The onChange handler first calls
\* setIntroProgress(null).
FetchIntroProgress(state, book) ==
  [progress |-> Null, error |-> Null, loading |-> TRUE,
   fetches |-> Append(state.fetches, book)]

\* setIntroProgress(progressData); finally setLoadingIntro(false)
IntroAnswered(state, i) ==
  [progress |-> state.fetches[i], error |-> state.error, loading |-> FALSE,
   fetches |-> RemoveAt(state.fetches, i)]

\* catch: setIntroError(error.message); setIntroProgress(null); finally
\* setLoadingIntro(false)
IntroRefused(state, i) ==
  [progress |-> Null, error |-> state.fetches[i], loading |-> FALSE,
   fetches |-> RemoveAt(state.fetches, i)]

\* The book <select>'s onChange with a book of the list.
SelectBookIntro(book) ==
  /\ Len(intro.fetches) < MaxIntroFetches
  /\ SelectedBook(book)
  /\ intro' = FetchIntroProgress(intro, book)

\* fetchIntroProgress after its awaits: the fetch of any earlier call may
\* settle first, whatever the book selected by then.
IntroFetched(i) ==
  /\ i \in 1..Len(intro.fetches)
  /\ intro' = IntroAnswered(intro, i)
  /\ last' = Did("introFetched", <<>>)
  /\ UNCHANGED <<mounted, propVars, stateVars, flagVars, elVars, timerVars,
                 playVars, netVars, resumeSeek, objectUrls, staleVars,
                 caller, resourceId, authVars, playbackRate, loggerVars>>

IntroFailed(i) ==
  /\ i \in 1..Len(intro.fetches)
  /\ intro' = IntroRefused(intro, i)
  /\ last' = Did("introFailed", <<>>)
  /\ UNCHANGED <<mounted, propVars, stateVars, flagVars, elVars, timerVars,
                 playVars, netVars, resumeSeek, objectUrls, staleVars,
                 caller, resourceId, authVars, playbackRate, loggerVars>>

\* App authenticated, the first book just selected: its introduction
\* progress is being fetched and the player it renders has mounted.
IntroInit ==
  /\ PlayerInit
  /\ authToken
  /\ Authenticated
  /\ LoggerConstructed
  /\ caller = "app"
  /\ page = "app"
  /\ resourceId \in BookIds
  /\ intro = FetchIntroProgress(NoIntro, resourceId)

IntroNext ==
  \/ \E book \in BookIds : SelectBookIntro(book)
  \/ \E i \in 1..MaxIntroFetches : IntroFetched(i)
  \/ \E i \in 1..MaxIntroFetches : IntroFailed(i)

IntroSpec == IntroInit /\ [][IntroNext]_vars

\* The player's controls next to the AuthProvider and its login form: every
\* request of the repository that can fail.
NetInit == Init \/ AuthInit

NetNext == ControlNext \/ AuthNext

NetSpec == NetInit /\ [][NetNext]_vars

\* ------------------------------------------------------ claims
\* A progress GET answered with a record while this instance is mounted.
RecordShown == mounted /\ progFetch = "done"

C2_NeverBothButtons == ~(ResumeVisible /\ StartOverVisible)

\* C2 witness: the flags of both buttons are set (a finished record that is
\* also resumable) and only Start Over Again is rendered.
C2_Witness ==
  /\ mounted /\ ~isPlaying
  /\ resumeAvailable /\ completionPercentage < 100 /\ showStartOver
  /\ StartOverVisible /\ ~ResumeVisible

C4_StartOverAtFullCompletion ==
  (RecordShown /\ ~isPlaying
   /\ (record.is_finished \in {"true", "1"}
       \/ record.completion_percentage = 100)) =>
    StartOverVisible

C6_StartOverNoNetwork ==
  last.op = "startOver" =>
    /\ last.reqs = <<>>
    /\ elCurrentTime = 0
    /\ ElPlayable => ~elPaused
    /\ isPlaying

\* C6 witness: Start Over Again was clicked with a token and a playable
\* source, and the element plays.
C6_Witness ==
  /\ last.op = "startOver" /\ authToken /\ ElPlayable /\ ~elPaused
  /\ isPlaying /\ showStartOver

\* C7: after handlePause completes, no periodic progress-push timer of this
\* instance remains active.
C7_PauseStopsEveryTimer == last.op = "pause" => activeTimers = {}

\* C8: at most one periodic progress-push timer is active at any time.
C8_AtMostOneTimer == Cardinality(activeTimers) <= 1

\* C9: whenever the player is in the playing state with an auth token, a
\* periodic progress-push timer is active.
C9_PlayingHasTimer ==
  (mounted /\ isPlaying /\ authToken) => activeTimers # {}

\* C10: after the player unmounts, no periodic progress-push timer created
\* by the instance is active.
C10_NoTimerAfterUnmount == ~mounted => activeTimers = {}

C22_SessionLogBounded ==
  [][logCalls' = logCalls + 1 =>
       /\ Len(sessionLogs') <= 1000
       /\ Len(sessionLogs) + 1 > 1000 =>
            /\ Len(sessionLogs') = 500
            /\ \A i \in 1..500 :
                 sessionLogs'[i] =
                   Append(sessionLogs, logCalls + 1)[Len(sessionLogs) - 499 + i]
            /\ sessionLogs'[500] = logCalls + 1]_vars

\* C22 witness: the 1001st call has cut the log to the entries 502..1001.
C22_Witness ==
  /\ last.op = "log" /\ logCalls = 1001 /\ Len(sessionLogs) = 500
  /\ sessionLogs[1] = 502 /\ sessionLogs[500] = 1001

\* C23: when the play() call of a handlePlay rejects, the player ends in a
\* non-playing state: isPlaying is false, that attempt has started no
\* periodic timer, and the error shown is one of the three fixed messages;
\* from every state in which handlePlay can be invoked, autoplay after
\* Resume included.
C23_RejectedPlayNotPlaying ==
  [][(last'.op = "playRejected" /\ mounted) =>
       /\ ~isPlaying'
       /\ UNCHANGED timerVars
       /\ error' \in {"blocked", "unsupported", "playFailed"}]_vars

\* C24: once the player is errored (error non-null) it stays errored, and
\* the Play control blocked, until a fresh mount or an explicit Resume or
\* Start-Over action: no other event (media events, autoplay, prop changes)
\* clears the error, and each of Resume and Start-Over does clear it.
C24_ErroredUntilResumeOrRestart ==
  [][(mounted /\ error # "null") =>
       /\ last'.op \notin {"resume", "startOver", "restartBook"} =>
            (error' # "null" /\ ~PlayPauseEnabled')
       /\ last'.op \in {"resume", "startOver"} => error' = "null"]_vars

\* C25: every progress push carries the status tag of the event that
\* triggered it and that event's position: 'paused' with the position at
\* pause for pause, 'completed' with position = duration for ended,
\* 'playing' or 'paused' according to the play state for a seek,
\* 'bookmarked' for bookmark and 'playing' for a timer tick; a timer tick
\* pushes only if the element is not paused at the tick.
C25_PushCarriesEventTag ==
  [][\A i \in 1..Len(last'.reqs) :
       IsProgressPost(last'.reqs[i]) =>
         LET push == last'.reqs[i]
             op == last'.op
         IN  \/ /\ op = "pause"
                /\ push.status = "paused"
                /\ push.position = elCurrentTime
             \/ /\ op = "ended"
                /\ push.status = "completed"
                /\ push.position = duration
             \/ /\ op \in {"seek", "barClick", "skipForward", "skipBackward"}
                /\ push.status = (IF isPlaying THEN "playing" ELSE "paused")
                /\ push.position = currentTime'
             \/ /\ op = "bookmark"
                /\ push.status = "bookmarked"
                /\ push.position = currentTime
             \/ /\ op = "tick"
                /\ push.status = "playing"
                /\ push.position = elCurrentTime
                /\ ~elPaused]_vars

\* C25 witness: playback has reached the end and the ended event has pushed
\* 'completed' at the duration.
C25_Witness ==
  /\ last.op = "ended" /\ mounted /\ ~isPlaying /\ elPaused
  /\ duration = MediaDuration
  /\ last.reqs = <<PostProgress(MediaDuration, "completed", 1)>>

\* C26: every progress push reports as playback_speed the playback rate in
\* effect when the push is issued, also a timer-tick push issued after the
\* user changed the rate while playback continued.
C26_PushReportsCurrentRate ==
  \A i \in 1..Len(last.reqs) :
    IsProgressPost(last.reqs[i]) => last.reqs[i].playback_speed = playbackRate

\* C27: in every reachable state a non-null error implies that isPlaying is
\* false, and after a media error event raised during playback the player
\* is errored, not playing, and no periodic timer is still running.
C27_ErroredNotPlaying ==
  /\ (mounted /\ error # "null") => ~isPlaying
  /\ (mounted /\ last.op = "error") =>
       (error # "null" /\ ~isPlaying /\ activeTimers = {})

\* C28: on mount the source is resolved by authentication mode.  Without a
\* token the streaming URL is the element's src at once and no fetch is ever
\* issued for it; with a token the mount issues exactly one fetch of the
\* audio, and when it succeeds the object URL made of its body becomes the
\* src; when it fails the player is errored and the src is left unassigned.
\* Each continuation clears the loading flag, and a pending fetch is
\* eventually followed by a state in which the flag is cleared.
C28_SourceByAuthMode ==
  /\ [](~authToken => srcFetch = "none" /\ objectUrls = {})
  /\ []((last.op = "mount" /\ ~authToken) =>
          (elSrc = "initial" /\ AudioRequests(last.reqs) = 0 /\ ~isLoading))
  /\ []((last.op = "mount" /\ authToken) =>
          (elSrc = "none" /\ AudioRequests(last.reqs) = 1 /\ isLoading))
  /\ [][/\ srcFetch' = "pending" => srcFetch = "pending"
        /\ AudioRequests(last'.reqs) > 0 => last'.op = "mount"
        /\ (mounted /\ last'.op = "sourceFetched") =>
             /\ elSrc' = "initial"
             /\ "initial" \in objectUrls'
             /\ ~isLoading'
        /\ (mounted /\ last'.op = "sourceFetchFailed") =>
             /\ error' = "load"
             /\ elSrc' = "none"
             /\ ~isLoading']_vars
  /\ (mounted /\ srcFetch = "pending")
       ~> (~mounted \/ (srcFetch # "pending" /\ ~isLoading))

C28_Witness ==
  /\ mounted
  /\ last.op = "sourceFetchFailed"
  /\ error = "load"
  /\ elSrc = "none"
  /\ ~isLoading

\* C29: onProgressUpdate is called exactly once for each progress push that
\* received a 2xx response, with that push's position, status and playback
\* rate, and never for a push that failed; a push skipped for want of a
\* token is never sent, so nothing settles and nothing is called.
C29_CallbackOncePer2xx ==
  /\ [][last'.op \in {"pushOk", "pushFailed"} =>
         IF last'.response = "2xx"
           THEN /\ Len(last'.cb) = Len(SelectSeq(last.reqs, IsProgressPost))
                /\ \A i \in 1..Len(last'.cb) :
                     last'.cb[i] =
                       OnProgressUpdate(SelectSeq(last.reqs, IsProgressPost)[i])
           ELSE last'.cb = <<>>]_vars
  /\ [](last.op \notin {"pushOk", "pushFailed"} => last.cb = <<>>)
  /\ [](~authToken => last.cb = <<>> /\ ~PushInFlight)

\* C30: the queues the session telemetry averages over (load times, seek
\* operations, network requests) are bounded: after any number of track
\* operations each holds at most 1000 entries.
C30_MetricQueuesBounded ==
  \A type \in PerformanceTypes : performanceMetrics[type] <= SessionLogLimit

\* C31: at most one of the Resume, Restart Book and Start Over Again buttons
\* is visible in any reachable state; Restart Book is never visible together
\* with Resume and never while the player is playing.
C31_OneRestartButton ==
  mounted =>
    /\ ~(ResumeVisible /\ RestartBookVisible)
    /\ ~(ResumeVisible /\ StartOverVisible)
    /\ ~(RestartBookVisible /\ StartOverVisible)
    /\ ~(RestartBookVisible /\ isPlaying)

\* C32: whenever the player is not playing (isPlaying false: initially, after
\* pause, after ended, after an error) no periodic progress-push timer is
\* active.
C32_NoTimerWhenNotPlaying ==
  (mounted /\ ~isPlaying) => activeTimers = {}

\* C33: isPlaying reflects the audio element: it becomes true only once a
\* play() on the element has succeeded, so a Resume, Restart Book or Start
\* Over Again whose play() rejects (or a Resume whose source has not loaded
\* its metadata) does not put the player in the playing state.
C33_PlayingOnlyAfterPlaySucceeded ==
  [][(mounted /\ ~isPlaying /\ isPlaying') => ~elPaused']_vars

\* C34: a failed download (the fetch rejects or returns non-2xx) leaves
\* playback unaffected: isPlaying, the position and the timer are unchanged
\* and the play/pause control remains enabled.
C34_FailedDownloadLeavesPlayback ==
  [][last'.op = "downloadFailed" =>
       /\ isPlaying' = isPlaying
       /\ elCurrentTime' = elCurrentTime
       /\ currentTime' = currentTime
       /\ timerVars' = timerVars
       /\ PlayPauseEnabled => PlayPauseEnabled']_vars

\* C35: the position is set to the resume target once per Resume: after a
\* Resume has completed, a metadata-loaded event of a source that Resume did
\* not assign (the source re-initialised after a prop change) neither moves
\* the position nor starts playback.
C35_ResumeSeekOncePerResume ==
  [][(resumeSeek.done /\ last'.op = "loadedmetadata" /\ elSrc # "resume") =>
       (elCurrentTime' = elCurrentTime /\ elPaused' = elPaused)]_vars

\* C36: in App the introduction progress held in state always belongs to the
\* selected book: whatever the order in which the responses of two
\* selections arrive, neither the progress nor the error of another book is
\* displayed for the selected one.
C36_IntroOfSelectedBook ==
  caller = "app" =>
    /\ intro.progress # Null => intro.progress = resourceId
    /\ intro.error # Null => intro.error = resourceId

\* C37: after any sequence of mount, validation, login submissions and
\* logout, once no request is in flight the auth state and the storage
\* agree: authToken is non-null iff a token is stored, and then the two are
\* equal; a failed login stores nothing and leaves the auth state unchanged.
C37_AuthStateMatchesStorage ==
  /\ []((page \in AuthPages /\ validation # "pending" /\ loginFetch = "none")
          => ctxToken = storedToken)
  /\ [][last'.op = "loginFailed" =>
         (storedToken' = storedToken /\ ctxToken' = ctxToken
            /\ ctxUser' = ctxUser)]_vars

\* C38: the auth provider's loading state always ends: from mount, with or
\* without a stored token, once the validation request settles isLoading
\* becomes false, and it stays false until the provider mounts again; when
\* it ends the page shows the login form (nothing stored, not authenticated)
\* or the authenticated content (token validated, user set).
C38_AuthLoadingEnds ==
  /\ ctxIsLoading ~> ~ctxIsLoading
  /\ [][(~ctxIsLoading /\ ctxIsLoading') => last'.op = "providerMount"]_vars
  /\ [][(ctxIsLoading /\ ~ctxIsLoading') =>
         \/ LoginRendered' /\ storedToken' = "none"
         \/ isAuthenticated' /\ ctxUser' = "user" /\ validation' = "ok"]_vars
  /\ []((page \in AuthPages /\ last.op = "providerMount"
           /\ storedToken = "none") => LoginRendered)

C38_Witness ==
  /\ last.op = "validateFailed"
  /\ ~ctxIsLoading
  /\ LoginRendered

\* C11: every object URL created for authenticated playback (by the initial
\* source fetch or by Resume) has been revoked by the time the instance is
\* unmounted: after unmount no created-but-unrevoked playback URL is left.
C11_NoUrlAfterUnmount == ~mounted => objectUrls = {}

\* C12: a progress push that fails (the fetch rejects, the response is
\* non-2xx or its body cannot be parsed) changes nothing of the playback
\* state: isPlaying, isLoading, the error shown, the position (state and
\* element), the element and the timers are after the failed push what they
\* were before it, exactly as after a push that succeeded.
C12_FailedPushChangesNothing ==
  [][last'.op \in {"pushFailed", "pushOk"} =>
       UNCHANGED <<mounted, stateVars, elVars, timerVars, playVars>>]_vars

\* C12 witness: a push issued by the timer while playing has failed; the
\* player still plays, shows no error and keeps its timer.
C12_Witness ==
  /\ last.op = "pushFailed" /\ mounted /\ isPlaying /\ ~elPaused
  /\ error = "null" /\ ~isLoading /\ progressIntervalRef \in activeTimers

C15_SkipStaysInRange ==
  [][/\ last'.op = "skipForward" =>
          /\ currentTime' = Min(currentTime + 30, duration)
          /\ elCurrentTime' = currentTime'
     /\ last'.op = "skipBackward" =>
          /\ currentTime' = (IF currentTime > 30 THEN currentTime - 30 ELSE 0)
          /\ elCurrentTime' = currentTime'
     /\ last'.op \in {"skipForward", "skipBackward"} =>
          (0 <= currentTime' /\ currentTime' <= duration')]_vars

\* C15 witness: a skip-forward pressed before the metadata has loaded
\* (duration 0) has left the position at 0.
C15_Witness ==
  /\ last.op = "skipForward" /\ mounted /\ duration = 0
  /\ ~HasMetadata(elPhase) /\ currentTime = 0 /\ elCurrentTime = 0

\* C17: when the validation of a stored token fails (non-2xx from /user/me,
\* a rejected request or an unparsable body), the session is logged out:
\* authToken and user are null, the token is gone from localStorage,
\* isAuthenticated is false, loading has ended and the login form is what
\* the page renders.
C17_FailedValidationLogsOut ==
  last.op = "validateFailed" =>
    /\ ctxToken = "none" /\ ctxUser = "none"
    /\ storedToken = "none"
    /\ ~isAuthenticated
    /\ ~ctxIsLoading
    /\ LoginRendered

\* C17 witness: the chapter demo was opened with a stored token, its
\* validation failed and the login form is shown.
C17_Witness ==
  /\ last.op = "validateFailed" /\ page = "chapterDemo"
  /\ validation = "failed" /\ storedToken = "none" /\ LoginRendered

\* C18: on every page that renders the login form inside an AuthProvider,
\* when the login endpoint has answered 2xx with a token, the token is in
\* localStorage, the session is authenticated and no login error is shown.
C18_LoginAuthenticates ==
  last.op = "loginOk" =>
    /\ storedToken = "new"
    /\ isAuthenticated
    /\ loginError = "null"

\* The events that may issue a request: a mount (of the player or of the
\* AuthProvider), a user action, the interval's tick and the ended event.
TriggeringEvents ==
  {"mount", "providerMount", "loginSubmit", "tick", "pause", "seek",
   "barClick", "skipForward", "skipBackward", "ended", "bookmark", "resume"}

C16_EndpointsFollowResource ==
  \A i \in 1..Len(last.reqs) :
    IsPlayerRequest(last.reqs[i]) =>
      RequestUrl(last.reqs[i]) = ResourceUrl(last.reqs[i])

\* C19: the ProgressRecord is fetched once per mounted instance: no step
\* after the mount issues a progress GET, whatever props change.
C19_ProgressFetchedOnce ==
  (\E i \in 1..Len(last.reqs) : last.reqs[i] = GetProgress) =>
    last.op = "mount"

\* C20: the affordance flags correspond to the most recently requested
\* ProgressRecord: once the latest progress GET has returned a record the
\* flags are that record's, and once it has returned non-2xx or a body
\* without progress they show no older record.
C20_FlagsFollowLatestFetch ==
  mounted =>
    /\ progFetch = "done" =>
         /\ resumeAvailable = ResumeEligible(record)
         /\ showStartOver = IsFinished(record)
         /\ resumeAvailable => resumePosition = record.position
    /\ progFetch = "empty" => (~resumeAvailable /\ ~showStartOver)

====
